---- MODULE Spec2Model ----
(***************************************************************************)
(* A model of proton_eml_organizer.py: the label catalog, the per-message  *)
(* label classification, the single-folder selection, the collision-free   *)
(* placement and the orchestrating run over an export directory.           *)
(*                                                                         *)
(* Text is modelled as a sequence of characters, each character a          *)
(* one-token string; the token "sup2" stands for U+00B2 (superscript two), *)
(* a character for which Python's str.isdigit() is true although it is no  *)
(* decimal digit.  A JSON value that may be a string or an integer (a      *)
(* label identifier) is a tagged record, see PyStr and PyInt.              *)
(***************************************************************************)
EXTENDS Integers, Sequences, FiniteSets, TLC

VARIABLES
    \* ---- the export directory, as the filesystem holds it ----
    export_exists,      \* export_path.exists()
    labels_file,        \* labels.json: missing, malformed, of the wrong shape, or ok with its Payload
    metadata_files,     \* the *.metadata.json files in glob order, each with its payload file
    organized_exists,   \* organized_emails/ exists
    dirs,               \* directories below organized_emails/, each a path of components
    files,              \* payload copies below organized_emails/: [dir, name, src]
    \* ---- one run of organize_emails ----
    pc,                 \* "idle" | "loop" | "summary"
    dry_run,            \* the run's dry_run argument
    labels_mapping,     \* the loaded catalog
    idx,                \* index of the next metadata file of the loop
    processed,          \* the run's counter of processed messages
    errors,             \* the run's counter of errors
    placements,         \* the run's placements so far: [src, folder, dir, name, copied]
    result,             \* "none" while running | "True" | "False" | "raised"
    \* ---- observations across runs ----
    fs0,                \* the filesystem below the export directory when the run started
    nruns,              \* runs started so far
    last,               \* the summary of the last finished run of each mode
    \* ---- a call of one pure function ----
    call,               \* the function's arguments
    ret,                \* <<>> before the call, <<value>> after it
    frame               \* <<locals>> of a call that runs step by step, <<>> otherwise

vars == << export_exists, labels_file, metadata_files, organized_exists, dirs, files,
           pc, dry_run, labels_mapping, idx, processed, errors, placements, result,
           fs0, nruns, last, call, ret, frame >>

runVars == << export_exists, labels_file, metadata_files, organized_exists, dirs, files,
              pc, dry_run, labels_mapping, idx, processed, errors, placements, result,
              fs0, nruns, last >>

-----------------------------------------------------------------------------
(* Bounds of the model *)

MaxBucket == 2      \* longest bucket handed to _select_target_folder
MaxLabels == 2      \* longest LabelIDs list handed to _categorize_labels
MaxMsgs == 2        \* most metadata files in the export directory
MaxRuns == 2        \* most runs of organize_emails on one export directory
MaxExisting == 3    \* most files already in the target folder of _generate_unique_filename

-----------------------------------------------------------------------------
(* Program constants and string literals *)

LABEL_TYPE_TAG == 1
LABEL_TYPE_FOLDER == 3

UNKNOWN_LABEL_PREFIX == << "U","n","k","n","o","w","n","_","L","a","b","e","l","_" >>
TYPE_INFIX == << "_","t","y","p","e" >>
UNLABELED == << "U","n","l","a","b","e","l","e","d" >>
INVALID_JSON == << "I","n","v","a","l","i","d","_","J","S","O","N" >>
ERROR_FOLDER == << "E","r","r","o","r" >>
UNKNOWN_NAME == << "U","n","k","n","o","w","n" >>
EML_SUFFIX == << ".","e","m","l" >>

-----------------------------------------------------------------------------
(* Python values and text *)

PyStr(s) == [ty |-> "str", s |-> s]
PyInt(n) == [ty |-> "int", n |-> n]

DecimalChars == { "0","1","2","3","4","5","6","7","8","9" }
\* The characters str.isdigit() accepts: the decimal digits and the other
\* Unicode digit characters, of which the model holds superscript two.
PyDigitChars == DecimalChars \cup { "sup2" }

DigitChar(d) == << "0","1","2","3","4","5","6","7","8","9" >>[d + 1]

RECURSIVE Decimal(_)
\* str(n) of an integer n >= 0
Decimal(n) == IF n < 10 THEN << DigitChar(n) >>
              ELSE Decimal(n \div 10) \o << DigitChar(n % 10) >>

\* str(v), and the f-string "{v}", of a string or an integer
str(v) == IF v.ty = "str" THEN v.s ELSE Decimal(v.n)

\* s.isdigit(): every character is a digit and there is at least one
isdigit(s) == Len(s) > 0 /\ \A i \in 1..Len(s) : s[i] \in PyDigitChars

\* The digit test without the "at least one character" half of str.isdigit().
is_system_folder_vacuous(label_id) == \A i \in 1..Len(label_id) : label_id[i] \in PyDigitChars

is_system_folder(label_id) == isdigit(label_id)

-----------------------------------------------------------------------------
(* _categorize_labels: the five buckets of a LabelIDs list *)

EmptyBuckets == [user_folders |-> <<>>, system_folders |-> <<>>, user_tags |-> <<>>,
                 system_tags |-> <<>>, unknown |-> <<>>]

\* One iteration of the loop: the buckets b after label_id is handled.
categorize_step_prepend(b, label_id, mapping) ==
    LET label_id_str == str(label_id) IN
    IF PyStr(label_id_str) \in DOMAIN mapping
    THEN LET label_info == mapping[PyStr(label_id_str)]
             is_system == is_system_folder(label_id_str) IN
         IF label_info.type = LABEL_TYPE_FOLDER
         THEN IF is_system
              THEN [b EXCEPT !.system_folders = << label_info.name >> \o @]
              ELSE [b EXCEPT !.user_folders = << label_info.name >> \o @]
         ELSE IF label_info.type = LABEL_TYPE_TAG
         THEN IF is_system
              THEN [b EXCEPT !.system_tags = << label_info.name >> \o @]
              ELSE [b EXCEPT !.user_tags = << label_info.name >> \o @]
         ELSE [b EXCEPT !.unknown = << label_info.name \o TYPE_INFIX \o Decimal(label_info.type) >> \o @]
    ELSE [b EXCEPT !.unknown = << UNKNOWN_LABEL_PREFIX \o str(label_id) >> \o @]

categorize_step(b, label_id, mapping) ==
    LET label_id_str == str(label_id) IN
    IF PyStr(label_id_str) \in DOMAIN mapping
    THEN LET label_info == mapping[PyStr(label_id_str)]
             is_system == is_system_folder(label_id_str) IN
         IF label_info.type = LABEL_TYPE_FOLDER
         THEN IF is_system
              THEN [b EXCEPT !.system_folders = Append(@, label_info.name)]
              ELSE [b EXCEPT !.user_folders = Append(@, label_info.name)]
         ELSE IF label_info.type = LABEL_TYPE_TAG
         THEN IF is_system
              THEN [b EXCEPT !.system_tags = Append(@, label_info.name)]
              ELSE [b EXCEPT !.user_tags = Append(@, label_info.name)]
         ELSE [b EXCEPT !.unknown =
                  Append(@, label_info.name \o TYPE_INFIX \o Decimal(label_info.type))]
    ELSE [b EXCEPT !.unknown = Append(@, UNKNOWN_LABEL_PREFIX \o str(label_id))]

RECURSIVE categorize_from(_, _, _, _)
categorize_from(b, label_ids, i, mapping) ==
    IF i > Len(label_ids) THEN b
    ELSE categorize_from(categorize_step(b, label_ids[i], mapping), label_ids, i + 1, mapping)

categorize_labels(label_ids, mapping) == categorize_from(EmptyBuckets, label_ids, 1, mapping)

-----------------------------------------------------------------------------
(* _select_target_folder: the one folder of a message *)

select_target_folder_system_tags_first(user_folders, system_folders, user_tags, system_tags, unknown) ==
    IF user_folders # <<>> THEN user_folders[1]
    ELSE IF system_folders # <<>> THEN system_folders[1]
    ELSE IF user_tags # <<>> \/ system_tags # <<>>
         THEN LET all_tags == system_tags \o user_tags IN all_tags[1]
    ELSE IF unknown # <<>> THEN unknown[1]
    ELSE UNLABELED

select_target_folder(user_folders, system_folders, user_tags, system_tags, unknown) ==
    IF user_folders # <<>> THEN user_folders[1]
    ELSE IF system_folders # <<>> THEN system_folders[1]
    ELSE IF user_tags # <<>> \/ system_tags # <<>>
         THEN LET all_tags == user_tags \o system_tags IN all_tags[1]
    ELSE IF unknown # <<>> THEN unknown[1]
    ELSE UNLABELED

select_of(b) == select_target_folder(b.user_folders, b.system_folders, b.user_tags,
                                     b.system_tags, b.unknown)

-----------------------------------------------------------------------------
(* sanitize_folder_name and load_labels_mapping: the catalog *)

UnsafeChars == { "<", ">", ":", "\"", "/", "\\", "|", "?", "*" }
StripChars == { ".", " " }

RECURSIVE lstrip(_)
lstrip(s) == IF s # <<>> /\ s[1] \in StripChars THEN lstrip(Tail(s)) ELSE s

RECURSIVE rstrip(_)
rstrip(s) == IF s # <<>> /\ s[Len(s)] \in StripChars THEN rstrip(SubSeq(s, 1, Len(s) - 1)) ELSE s

\* The function without its fallback to 'Unknown'.
sanitize_folder_name_no_fallback(name) ==
    rstrip(lstrip([i \in 1..Len(name) |-> IF name[i] \in UnsafeChars THEN "_" ELSE name[i]]))

sanitize_folder_name(name) ==
    LET replaced == [i \in 1..Len(name) |-> IF name[i] \in UnsafeChars THEN "_" ELSE name[i]]
        stripped == rstrip(lstrip(replaced)) IN
    IF stripped = <<>> THEN UNKNOWN_NAME ELSE stripped

RECURSIVE load_from_stop_at_incomplete(_, _, _)
\* The loop leaving at the first incomplete entry instead of skipping it.
load_from_stop_at_incomplete(mapping, payload, i) ==
    IF i > Len(payload) THEN mapping
    ELSE LET label == payload[i] IN
         IF {"ID", "Name", "Type"} \subseteq DOMAIN label
         THEN load_from_stop_at_incomplete((label.ID :> [name |-> sanitize_folder_name(label.Name),
                                      type |-> label.Type]) @@ mapping, payload, i + 1)
         ELSE mapping

\* The loop over labels_data['Payload']: a complete entry is stored under its
\* ID as the file gives it (a string or an integer), a later one replacing an
\* earlier one of the same ID; an incomplete entry is skipped.
RECURSIVE load_from(_, _, _)
load_from(mapping, payload, i) ==
    IF i > Len(payload) THEN mapping
    ELSE LET label == payload[i] IN
         IF {"ID", "Name", "Type"} \subseteq DOMAIN label
         THEN load_from((label.ID :> [name |-> sanitize_folder_name(label.Name),
                                      type |-> label.Type]) @@ mapping, payload, i + 1)
         ELSE load_from(mapping, payload, i + 1)

\* load_labels_mapping: [none |-> TRUE] is the return value None.
load_labels_mapping(lf) ==
    IF lf.state # "ok"
    THEN [none |-> TRUE, mapping |-> <<>>]
    ELSE LET mapping == load_from(<<>>, lf.payload, 1) IN
         IF DOMAIN mapping = {} THEN [none |-> TRUE, mapping |-> <<>>]
         ELSE [none |-> FALSE, mapping |-> mapping]

-----------------------------------------------------------------------------
(* get_email_labels: the folder of one metadata file *)

Absent == [ty |-> "absent"]
PyNone == [ty |-> "none"]
PyList(items) == [ty |-> "list", items |-> items]

\* email_data.payload_ids is Payload.LabelIDs, email_data.root_ids is LabelIDs.
extract_label_ids_from_email(email_data) ==
    IF email_data.payload_ids.ty # "absent" THEN email_data.payload_ids
    ELSE IF email_data.root_ids.ty # "absent" THEN email_data.root_ids
    ELSE PyNone

\* "not label_ids" of Python: None, the empty list and the integer 0.
Falsy(v) == \/ v.ty = "none"
            \/ (v.ty = "list" /\ v.items = <<>>)
            \/ (v.ty = "int" /\ v.n = 0)

get_email_labels(meta, mapping) ==
    IF meta.kind = "invalid" THEN INVALID_JSON
    ELSE LET label_ids == extract_label_ids_from_email(meta) IN
         IF Falsy(label_ids) THEN UNLABELED
         ELSE IF label_ids.ty # "list" THEN ERROR_FOLDER
         ELSE select_of(categorize_labels(label_ids.items, mapping))

-----------------------------------------------------------------------------
(* Paths and the filesystem below organized_emails/ *)

RECURSIVE SplitFrom(_, _, _)
\* The components of a relative path: the text between "/", empty ones dropped.
SplitFrom(s, i, cur) ==
    IF i > Len(s) THEN (IF cur = <<>> THEN <<>> ELSE << cur >>)
    ELSE IF s[i] = "/" THEN (IF cur = <<>> THEN <<>> ELSE << cur >>) \o SplitFrom(s, i + 1, <<>>)
    ELSE SplitFrom(s, i + 1, Append(cur, s[i]))

SplitPath(s) == SplitFrom(s, 1, <<>>)

\* Path.exists() of dir/name
path_exists(fdirs, ffiles, dir, name) ==
    \/ \E f \in ffiles : f.dir = dir /\ f.name = name
    \/ Append(dir, name) \in fdirs

\* Path.mkdir(exist_ok=True) of a directory below organized_emails/, which
\* exists: it raises when the parent directory is missing.
mkdir_raises(fdirs, dir) ==
    Len(dir) > 1 /\ SubSeq(dir, 1, Len(dir) - 1) \notin fdirs

\* _get_corresponding_eml_file: the payload's file name
get_corresponding_eml_file(base) == base \o EML_SUFFIX

LastDot(name) ==
    LET at == { i \in 1..Len(name) : name[i] = "." } IN
    IF at = {} THEN 0 ELSE CHOOSE i \in at : \A j \in at : j <= i

\* Path.stem: the name without its last suffix
Stem(name) ==
    LET d == LastDot(name) IN
    IF d > 1 /\ d < Len(name) THEN SubSeq(name, 1, d - 1) ELSE name

\* One pass of the while loop with the counter left as it was.
resolve_step_same_counter(eml_name, counter) ==
    [target_name |-> Stem(eml_name) \o << "_" >> \o Decimal(counter) \o EML_SUFFIX,
     counter |-> counter]

\* One pass of the while loop of _generate_unique_filename: the next candidate
\* and the counter after it.
resolve_step(eml_name, counter) ==
    [target_name |-> Stem(eml_name) \o << "_" >> \o Decimal(counter) \o EML_SUFFIX,
     counter |-> counter + 1]

RECURSIVE unique_from(_, _, _, _, _, _)
unique_from(fdirs, ffiles, target_dir, eml_name, target_name, counter) ==
    IF path_exists(fdirs, ffiles, target_dir, target_name)
    THEN unique_from(fdirs, ffiles, target_dir, eml_name,
                     Stem(eml_name) \o << "_" >> \o Decimal(counter) \o EML_SUFFIX, counter + 1)
    ELSE [name |-> target_name, counter |-> counter]

RECURSIVE unique_from_restem(_, _, _, _, _, _)
\* The loop taking the stem of the last candidate instead of the payload's.
unique_from_restem(fdirs, ffiles, target_dir, eml_name, target_name, counter) ==
    IF path_exists(fdirs, ffiles, target_dir, target_name)
    THEN unique_from_restem(fdirs, ffiles, target_dir, eml_name,
                     Stem(target_name) \o << "_" >> \o Decimal(counter) \o EML_SUFFIX, counter + 1)
    ELSE [name |-> target_name, counter |-> counter]

generate_unique_filename_restem(fdirs, ffiles, target_dir, eml_name) ==
    unique_from_restem(fdirs, ffiles, target_dir, eml_name, eml_name, 1)

\* _generate_unique_filename: the name chosen in target_dir, and the loop's counter
generate_unique_filename(fdirs, ffiles, target_dir, eml_name) ==
    unique_from(fdirs, ffiles, target_dir, eml_name, eml_name, 1)

setup_output_directory_no_refusal(exists, dry, mkdir_ok) ==
    IF dry THEN [ok |-> TRUE, exists |-> exists]
    ELSE IF mkdir_ok THEN [ok |-> TRUE, exists |-> TRUE]
    ELSE [ok |-> FALSE, exists |-> exists]

\* _setup_output_directory: ok is "not None", exists is organized_dir.exists() after it.
setup_output_directory(exists, dry, mkdir_ok) ==
    IF exists /\ ~dry THEN [ok |-> FALSE, exists |-> exists]
    ELSE IF dry THEN [ok |-> TRUE, exists |-> exists]
    ELSE IF mkdir_ok THEN [ok |-> TRUE, exists |-> TRUE]
    ELSE [ok |-> FALSE, exists |-> exists]

copy_email_file_always(ffiles, src, dir, name, dry, copy_ok) ==
    IF copy_ok
    THEN [ok |-> TRUE,
          files |-> { f \in ffiles : ~(f.dir = dir /\ f.name = name) }
                    \cup { [dir |-> dir, name |-> name, src |-> src] }]
    ELSE [ok |-> FALSE, files |-> ffiles]

\* _copy_email_file: ok is its return value, files the copies after it.
copy_email_file(ffiles, src, dir, name, dry, copy_ok) ==
    IF dry THEN [ok |-> TRUE, files |-> ffiles]
    ELSE IF copy_ok
    THEN [ok |-> TRUE,
          files |-> { f \in ffiles : ~(f.dir = dir /\ f.name = name) }
                    \cup { [dir |-> dir, name |-> name, src |-> src] }]
    ELSE [ok |-> FALSE, files |-> ffiles]

-----------------------------------------------------------------------------
(* The idle values of the variables a specification does not use *)

NoCall == [fn |-> "none"]

RunIdle ==
    /\ export_exists = FALSE
    /\ labels_file = [state |-> "missing", payload |-> <<>>]
    /\ metadata_files = <<>>
    /\ organized_exists = FALSE
    /\ dirs = {}
    /\ files = {}
    /\ pc = "idle"
    /\ dry_run = FALSE
    /\ labels_mapping = <<>>
    /\ idx = 0
    /\ processed = 0
    /\ errors = 0
    /\ placements = <<>>
    /\ result = "none"
    /\ fs0 = [organized_exists |-> FALSE, dirs |-> {}, files |-> {}]
    /\ nruns = 0
    /\ last = [preview |-> <<>>, real |-> <<>>]

SeqsUpTo(S, n) == UNION { [1..k -> S] : k \in 0..n }

-----------------------------------------------------------------------------
(* SpecSelect: _select_target_folder called on every combination of buckets *)

BucketNames == { << "A" >>, << "B" >> }

InitSelect ==
    /\ RunIdle
    /\ \E uf \in SeqsUpTo(BucketNames, MaxBucket), sf \in SeqsUpTo(BucketNames, MaxBucket),
          ut \in SeqsUpTo(BucketNames, MaxBucket), st \in SeqsUpTo(BucketNames, MaxBucket),
          un \in SeqsUpTo(BucketNames, MaxBucket) :
          call = [fn |-> "select", user_folders |-> uf, system_folders |-> sf,
                  user_tags |-> ut, system_tags |-> st, unknown |-> un]
    /\ ret = <<>>
    /\ frame = <<>>

CallSelect ==
    /\ call.fn = "select"
    /\ ret = <<>>
    /\ ret' = << select_of(call) >>
    /\ UNCHANGED << call, frame, runVars >>

NextSelect == CallSelect

SpecSelect == InitSelect /\ [][NextSelect]_vars

-----------------------------------------------------------------------------
(* SpecCategorize: _categorize_labels called on LabelIDs lists and catalogs *)

\* Identifiers a message may carry: digits only, digits and a letter, empty, a
\* digit that is no decimal digit, an integer, and one no catalog of the model
\* holds.
IdUniverse == { PyStr(<< "1","2" >>), PyStr(<< "1","a" >>), PyStr(<<>>),
                PyStr(<< "sup2" >>), PyInt(12), PyStr(<< "x" >>) }

CatalogKeys == { PyStr(<< "1","2" >>), PyStr(<< "1","a" >>), PyStr(<<>>), PyStr(<< "sup2" >>) }

\* The display name the model's catalogs give a key; the kind codes are folder,
\* tag and 7, a code that is neither.
NameOfKey(k) == << "N" >> \o k.s

Catalogs ==
    { [k \in K |-> [name |-> NameOfKey(k), type |-> t[k]]] :
        <<K, t>> \in { <<K2, t2>> \in (SUBSET CatalogKeys) \X
                                      [CatalogKeys -> {LABEL_TYPE_FOLDER, LABEL_TYPE_TAG, 7}] :
                       \A k \in CatalogKeys \ K2 : t2[k] = LABEL_TYPE_FOLDER } }

InitCategorize ==
    /\ RunIdle
    /\ \E ids \in SeqsUpTo(IdUniverse, MaxLabels), m \in Catalogs :
          call = [fn |-> "categorize", label_ids |-> ids, mapping |-> m]
    /\ ret = <<>>
    /\ frame = <<>>

CallCategorize ==
    /\ call.fn = "categorize"
    /\ ret = <<>>
    /\ ret' = << categorize_labels(call.label_ids, call.mapping) >>
    /\ UNCHANGED << call, frame, runVars >>

NextCategorize == CallCategorize

SpecCategorize == InitCategorize /\ [][NextCategorize]_vars

-----------------------------------------------------------------------------
(* Spec: runs of organize_emails on one export directory *)

FS == [organized_exists |-> organized_exists, dirs |-> dirs, files |-> files]

\* The labels.json files of the model.
FullPayload ==
    << [ID |-> PyStr(<< "1" >>), Name |-> << "I","n" >>, Type |-> 3],
       [ID |-> PyStr(<< "u" >>), Name |-> << "W",":","k","." >>, Type |-> 3],
       [ID |-> PyInt(5), Name |-> << "F","v" >>, Type |-> 3],
       [ID |-> PyStr(<< "t" >>), Name |-> << "I","m" >>, Type |-> 1],
       [ID |-> PyStr(<< "o" >>), Name |-> << "O","t" >>, Type |-> 7],
       [ID |-> PyStr(<< "2" >>), Name |-> << "N","c" >>] >>

IncompletePayload == << [ID |-> PyStr(<< "2" >>), Name |-> << "N","c" >>] >>

LabelsFiles ==
    { [state |-> "missing", payload |-> <<>>],
      [state |-> "malformed", payload |-> <<>>],
      [state |-> "wrongshape", payload |-> <<>>],
      [state |-> "ok", payload |-> <<>>],
      [state |-> "ok", payload |-> IncompletePayload],
      [state |-> "ok", payload |-> FullPayload] }

\* The metadata files of the model: nested and top-level LabelIDs, an
\* identifier no catalog holds, one with a path separator in it, an integer
\* identifier, no LabelIDs, LabelIDs that is no list, and unparseable JSON.
Json(payload_ids, root_ids) == [kind |-> "json", payload_ids |-> payload_ids, root_ids |-> root_ids]

Metas ==
    { Json(PyList(<< PyStr(<< "u" >>), PyStr(<< "1" >>) >>), Absent),
      Json(Absent, PyList(<< PyStr(<< "1" >>) >>)),
      Json(Absent, PyList(<< PyStr(<< "x" >>) >>)),
      Json(Absent, PyList(<< PyStr(<< "x","/","y" >>) >>)),
      Json(Absent, PyList(<< PyInt(5) >>)),
      Json(Absent, Absent),
      Json(Absent, PyInt(7)),
      [kind |-> "invalid"] }

\* A metadata file whose payload file is missing is never read.
Messages(base) ==
    { [base |-> base, eml_exists |-> TRUE, meta |-> m] : m \in Metas }
    \cup { [base |-> base, eml_exists |-> FALSE, meta |-> [kind |-> "invalid"]] }

\* The base name of the i-th metadata file: "t", "t_1", "t_2", ...
BaseName(i) == IF i = 1 THEN << "t" >> ELSE << "t", "_" >> \o Decimal(i - 1)

ExportDirs ==
    UNION { { ms \in [1..k -> UNION { Messages(BaseName(i)) : i \in 1..k }] :
                \A i \in 1..k : ms[i].base = BaseName(i) } : k \in 0..MaxMsgs }

Init ==
    /\ export_exists \in BOOLEAN
    /\ IF export_exists
       THEN labels_file \in LabelsFiles /\ metadata_files \in ExportDirs
       ELSE labels_file = [state |-> "missing", payload |-> <<>>] /\ metadata_files = <<>>
    /\ organized_exists = FALSE
    /\ dirs = {}
    /\ files = {}
    /\ pc = "idle"
    /\ dry_run = FALSE
    /\ labels_mapping = <<>>
    /\ idx = 0
    /\ processed = 0
    /\ errors = 0
    /\ placements = <<>>
    /\ result = "none"
    /\ fs0 = [organized_exists |-> FALSE, dirs |-> {}, files |-> {}]
    /\ nruns = 0
    /\ last = [preview |-> <<>>, real |-> <<>>]
    /\ call = NoCall
    /\ ret = <<>>
    /\ frame = <<>>

\* organize_emails returns False before its loop.
Abort(exists_after) ==
    /\ pc' = "idle"
    /\ result' = "False"
    /\ organized_exists' = exists_after
    /\ labels_mapping' = <<>>
    /\ idx' = 0

\* organize_emails up to its loop: validation, catalog, output directory,
\* discovery of the metadata files.
Start(dry, mkdir_ok) ==
    /\ pc = "idle"
    /\ nruns < MaxRuns
    /\ nruns' = nruns + 1
    /\ dry_run' = dry
    /\ fs0' = FS
    /\ processed' = 0
    /\ errors' = 0
    /\ placements' = <<>>
    /\ LET loaded == load_labels_mapping(labels_file)
           setup == setup_output_directory(organized_exists, dry, mkdir_ok) IN
       IF ~export_exists THEN Abort(organized_exists)
       ELSE IF loaded.none THEN Abort(organized_exists)
       ELSE IF ~setup.ok THEN Abort(setup.exists)
       ELSE IF metadata_files = <<>> THEN Abort(setup.exists)
       ELSE /\ pc' = "loop"
            /\ result' = "none"
            /\ organized_exists' = setup.exists
            /\ labels_mapping' = loaded.mapping
            /\ idx' = 1
    /\ UNCHANGED << export_exists, labels_file, metadata_files, dirs, files, last, call, ret, frame >>

\* The counters with processed incremented whether or not the copy succeeded.
count_copy_always_processed(p, e, ok) ==
    IF ok THEN [processed |-> p + 1, errors |-> e] ELSE [processed |-> p + 1, errors |-> e + 1]

\* The counters after _copy_email_file returned ok.
count_copy(p, e, ok) ==
    IF ok THEN [processed |-> p + 1, errors |-> e] ELSE [processed |-> p, errors |-> e + 1]

\* One iteration of the loop of organize_emails.
ProcessMessage(copy_ok) ==
    /\ pc = "loop"
    /\ LET metadata_file == metadata_files[idx]
           eml_name == get_corresponding_eml_file(metadata_file.base)
           target_folder == get_email_labels(metadata_file.meta, labels_mapping)
           target_dir == SplitPath(target_folder)
           dirs_after == IF dry_run THEN dirs ELSE (dirs \cup { target_dir }) \ { <<>> }
           target == generate_unique_filename(dirs_after, files, target_dir, eml_name)
           copy == copy_email_file(files, metadata_file.base, target_dir, target.name,
                                   dry_run, copy_ok)
           more == idx < Len(metadata_files) IN
       IF ~metadata_file.eml_exists
       THEN /\ errors' = errors + 1
            /\ idx' = idx + 1
            /\ pc' = IF more THEN "loop" ELSE "summary"
            /\ UNCHANGED << dirs, files, processed, placements, result >>
       ELSE IF ~dry_run /\ mkdir_raises(dirs, target_dir)
       THEN /\ pc' = "idle"
            /\ result' = "raised"
            /\ UNCHANGED << dirs, files, processed, errors, placements, idx >>
       ELSE /\ dirs' = dirs_after
            /\ files' = copy.files
            /\ placements' = Append(placements,
                    [src |-> metadata_file.base, folder |-> target_folder,
                     dir |-> target_dir, name |-> target.name, copied |-> copy.ok])
            /\ processed' = count_copy(processed, errors, copy.ok).processed
            /\ errors' = count_copy(processed, errors, copy.ok).errors
            /\ idx' = idx + 1
            /\ pc' = IF more THEN "loop" ELSE "summary"
            /\ UNCHANGED result
    /\ UNCHANGED << export_exists, labels_file, metadata_files, organized_exists, dry_run,
                    labels_mapping, fs0, nruns, last, call, ret, frame >>

\* _print_folder_summary in a dry run: the folders counted from the metadata.
dry_folder_counts ==
    LET with_eml == { i \in 1..Len(metadata_files) : metadata_files[i].eml_exists }
        folder(i) == get_email_labels(metadata_files[i].meta, labels_mapping) IN
    { << folder(i), Cardinality({ j \in with_eml : folder(j) = folder(i) }) >> : i \in with_eml }

\* _print_folder_summary otherwise: the directories of organized_emails/ and
\* the *.eml files each holds.
real_folder_counts ==
    { << d[1], Cardinality({ f \in files : f.dir = d }) >> : d \in { e \in dirs : Len(e) = 1 } }

print_folder_summary == IF dry_run THEN dry_folder_counts ELSE real_folder_counts

\* organize_emails after its loop: the summary, and True.
Finish ==
    /\ pc = "summary"
    /\ pc' = "idle"
    /\ result' = "True"
    /\ LET summary == [chosen |-> [i \in 1..Len(placements) |->
                                      [src |-> placements[i].src, folder |-> placements[i].folder]],
                       all_copied |-> \A i \in 1..Len(placements) : placements[i].copied,
                       processed |-> processed,
                       errors |-> errors,
                       tally |-> print_folder_summary] IN
       last' = IF dry_run THEN [last EXCEPT !.preview = << summary >>]
               ELSE [last EXCEPT !.real = << summary >>]
    /\ UNCHANGED << export_exists, labels_file, metadata_files, organized_exists, dirs, files,
                    dry_run, labels_mapping, idx, processed, errors, placements,
                    fs0, nruns, call, ret, frame >>

Next ==
    \/ \E dry \in BOOLEAN, mkdir_ok \in BOOLEAN : Start(dry, mkdir_ok)
    \/ \E copy_ok \in BOOLEAN : ProcessMessage(copy_ok)
    \/ Finish

Spec == Init /\ [][Next]_vars

-----------------------------------------------------------------------------
(* SpecResolve: _generate_unique_filename called on target folders *)

EmlName(stem) == stem \o EML_SUFFIX

\* Names a target folder may already hold.
ResolveNames == { EmlName(<< "t" >>), EmlName(<< "t","_","1" >>), EmlName(<< "t","_","2" >>),
                  EmlName(<< "t","_","3" >>), EmlName(<< "t","_","1","_","1" >>),
                  EmlName(<< "t","_","1","_","2" >>) }

TargetDir == << << "D" >> >>
OtherDir == << << "E" >> >>

InitResolve ==
    /\ RunIdle
    /\ \E existing \in SUBSET ResolveNames, elsewhere \in SUBSET { EmlName(<< "t" >>) },
          eml_name \in { EmlName(<< "t" >>), EmlName(<< "t","_","1" >>) } :
          /\ Cardinality(existing) <= MaxExisting
          /\ call = [fn |-> "resolve", target_dir |-> TargetDir, eml_name |-> eml_name,
                     dirs |-> { TargetDir, OtherDir },
                     files |-> { [dir |-> TargetDir, name |-> n, src |-> << "o" >>] : n \in existing }
                               \cup { [dir |-> OtherDir, name |-> n, src |-> << "o" >>] : n \in elsewhere }]
    /\ ret = <<>>
    /\ frame = <<>>

CallResolve ==
    /\ call.fn = "resolve"
    /\ ret = <<>>
    /\ ret' = << generate_unique_filename(call.dirs, call.files, call.target_dir, call.eml_name) >>
    /\ UNCHANGED << call, frame, runVars >>

NextResolve == CallResolve

SpecResolve == InitResolve /\ [][NextResolve]_vars

-----------------------------------------------------------------------------
(* _generate_unique_filename, one pass of its loop at a time *)

InitResolveLoop ==
    /\ RunIdle
    /\ \E existing \in SUBSET ResolveNames, elsewhere \in SUBSET { EmlName(<< "t" >>) },
          eml_name \in { EmlName(<< "t" >>), EmlName(<< "t","_","1" >>) } :
          /\ Cardinality(existing) <= MaxExisting
          /\ call = [fn |-> "resolve_loop", target_dir |-> TargetDir, eml_name |-> eml_name,
                     dirs |-> { TargetDir, OtherDir },
                     files |-> { [dir |-> TargetDir, name |-> n, src |-> << "o" >>] : n \in existing }
                               \cup { [dir |-> OtherDir, name |-> n, src |-> << "o" >>] : n \in elsewhere }]
    /\ ret = <<>>
    /\ frame = <<>>

\* target_eml = target_dir / eml_file.name; counter = 1
EnterResolve ==
    /\ call.fn = "resolve_loop"
    /\ ret = <<>> /\ frame = <<>>
    /\ frame' = << [target_name |-> call.eml_name, counter |-> 1] >>
    /\ UNCHANGED << call, ret, runVars >>

\* while target_eml.exists(): the next candidate
LoopResolve ==
    /\ call.fn = "resolve_loop"
    /\ ret = <<>> /\ frame # <<>>
    /\ path_exists(call.dirs, call.files, call.target_dir, frame[1].target_name)
    /\ frame' = << resolve_step(call.eml_name, frame[1].counter) >>
    /\ UNCHANGED << call, ret, runVars >>

\* return target_eml
ReturnResolve ==
    /\ call.fn = "resolve_loop"
    /\ ret = <<>> /\ frame # <<>>
    /\ ~path_exists(call.dirs, call.files, call.target_dir, frame[1].target_name)
    /\ ret' = << [name |-> frame[1].target_name, counter |-> frame[1].counter] >>
    /\ UNCHANGED << call, frame, runVars >>

NextResolveLoop == EnterResolve \/ LoopResolve \/ ReturnResolve

\* The call runs on while it has a pass to make.
SpecResolveLoop == InitResolveLoop /\ [][NextResolveLoop]_vars /\ WF_vars(NextResolveLoop)

-----------------------------------------------------------------------------
(* sanitize_folder_name on bounded names *)

MaxName == 3

NameChars == UnsafeChars \cup { "a", ".", " " }

InitSanitize ==
    /\ RunIdle
    /\ \E name \in SeqsUpTo(NameChars, MaxName) : call = [fn |-> "sanitize", name |-> name]
    /\ ret = <<>>
    /\ frame = <<>>

CallSanitize ==
    /\ call.fn = "sanitize"
    /\ ret = <<>>
    /\ ret' = << sanitize_folder_name(call.name) >>
    /\ UNCHANGED << call, frame, runVars >>

NextSanitize == CallSanitize

SpecSanitize == InitSanitize /\ [][NextSanitize]_vars

-----------------------------------------------------------------------------
(* load_labels_mapping on bounded entry collections *)

MaxEntries == 3

\* Entries of labels.json: complete ones of the kinds 3, 1 and 7, one repeating
\* an ID, one with an integer ID and a name to sanitize, and ones that lack
\* Type, ID or Name.
LoadEntries ==
    { [ID |-> PyStr(<< "1" >>), Name |-> << "I", "n" >>, Type |-> 3],
      [ID |-> PyStr(<< "2" >>), Name |-> << "N", "c" >>],
      [ID |-> PyStr(<< "3" >>), Name |-> << "V", "a" >>, Type |-> 1],
      [Name |-> << "N", "o" >>, Type |-> 1],
      [ID |-> PyStr(<< "4" >>), Type |-> 3],
      [ID |-> PyStr(<< "1" >>), Name |-> << "D", "u" >>, Type |-> 7],
      [ID |-> PyInt(5), Name |-> << "W", ":", "k", "." >>, Type |-> 3] }

InitLoad ==
    /\ RunIdle
    /\ \E payload \in SeqsUpTo(LoadEntries, MaxEntries) :
          call = [fn |-> "load", lf |-> [state |-> "ok", payload |-> payload]]
    /\ ret = <<>>
    /\ frame = <<>>

CallLoad ==
    /\ call.fn = "load"
    /\ ret = <<>>
    /\ ret' = << load_labels_mapping(call.lf) >>
    /\ UNCHANGED << call, frame, runVars >>

NextLoad == CallLoad

SpecLoad == InitLoad /\ [][NextLoad]_vars

-----------------------------------------------------------------------------
(* Claims about _select_target_folder (SpecSelect) *)

\* The four tiers of the priority rule, highest first.
TiersOf(c) == << c.user_folders, c.system_folders, c.user_tags \o c.system_tags, c.unknown >>

NonEmptyTiers(c) == { i \in 1..4 : TiersOf(c)[i] # <<>> }

WinningTier(c) == CHOOSE i \in NonEmptyTiers(c) : \A j \in NonEmptyTiers(c) : i <= j

\* The call c with everything dropped but the first element of its winning tier.
WinnerOnly(c) ==
    LET w == WinningTier(c)
        keep(s) == IF s = <<>> THEN <<>> ELSE << s[1] >> IN
    [c EXCEPT !.user_folders = IF w = 1 THEN keep(@) ELSE <<>>,
              !.system_folders = IF w = 2 THEN keep(@) ELSE <<>>,
              !.user_tags = IF w = 3 THEN keep(@) ELSE <<>>,
              !.system_tags = IF w = 3 /\ c.user_tags = <<>> THEN keep(@) ELSE <<>>,
              !.unknown = IF w = 4 THEN keep(@) ELSE <<>>]

\* C2: _select_target_folder returns element 0 of the first non-empty tier in
\* the order user folders, system folders, user tags followed by system tags,
\* unrecognized, and 'Unlabeled' when all five buckets are empty; the later
\* elements of the winning bucket and the lower tiers do not influence it.
C2_SelectPriority ==
    (call.fn = "select" /\ ret # <<>>) =>
        IF NonEmptyTiers(call) = {}
        THEN ret[1] = UNLABELED
        ELSE /\ ret[1] = TiersOf(call)[WinningTier(call)][1]
             /\ select_of(WinnerOnly(call)) = ret[1]

\* A call decided in the tag tier by the user tags, with a second user tag, a
\* system tag and an unrecognized name that all lose.
C2_Witness ==
    /\ call.fn = "select" /\ ret # <<>>
    /\ call.user_folders = <<>> /\ call.system_folders = <<>>
    /\ call.user_tags = << << "B" >>, << "A" >> >>
    /\ call.system_tags = << << "A" >> >>
    /\ call.unknown = << << "A" >> >>
    /\ ret[1] = << "B" >>

-----------------------------------------------------------------------------
(* Claims about _categorize_labels (SpecCategorize) *)

BucketKeys == { "user_folders", "system_folders", "user_tags", "system_tags", "unknown" }

\* The bucket and the name the classification rule gives one identifier, the
\* digit test being "non-empty and every character in digitChars".
RuleFor(label_id, mapping, digitChars) ==
    LET s == str(label_id)
        allDigits == s # <<>> /\ \A i \in 1..Len(s) : s[i] \in digitChars IN
    IF PyStr(s) \notin DOMAIN mapping
    THEN [bucket |-> "unknown", name |-> UNKNOWN_LABEL_PREFIX \o s]
    ELSE LET e == mapping[PyStr(s)] IN
         CASE e.type = 3 -> [bucket |-> IF allDigits THEN "system_folders" ELSE "user_folders",
                             name |-> e.name]
           [] e.type = 1 -> [bucket |-> IF allDigits THEN "system_tags" ELSE "user_tags",
                             name |-> e.name]
           [] OTHER -> [bucket |-> "unknown", name |-> e.name \o TYPE_INFIX \o Decimal(e.type)]

\* The names the rule sends to bucket k, in the order of label_ids.
RuleBucket(k, label_ids, mapping, digitChars) ==
    LET In(i) == RuleFor(label_ids[i], mapping, digitChars).bucket = k
        at == SelectSeq([i \in 1..Len(label_ids) |-> i], In) IN
    [j \in 1..Len(at) |-> RuleFor(label_ids[at[j]], mapping, digitChars).name]

FollowsRule(digitChars) ==
    (call.fn = "categorize" /\ ret # <<>>) =>
        \A k \in BucketKeys : ret[1][k] = RuleBucket(k, call.label_ids, call.mapping, digitChars)

\* C3 as stated: the origin test is "solely decimal digits".
C3_DecimalDigitRule == FollowsRule(DecimalChars)

\* C3, amended: every identifier, in its string form, goes to 'Unknown_Label_<id>'
\* in the unrecognized bucket when absent from the catalog; when present, kind 3
\* goes to system folders and kind 1 to system tags when the identifier is
\* non-empty and every character of it is a digit in the sense of str.isdigit()
\* (the decimal digits and the other digit characters, such as superscript
\* two), to user folders and user tags otherwise; any other kind yields
\* '<name>_type<code>' in the unrecognized bucket.
C3_IsdigitRule == FollowsRule(PyDigitChars)

\* A call that met the empty identifier as a folder and an integer identifier
\* whose string form is a folder's key of decimal digits.
C3_Witness ==
    /\ call.fn = "categorize" /\ ret # <<>>
    /\ call.label_ids = << PyStr(<<>>), PyInt(12) >>
    /\ PyStr(<<>>) \in DOMAIN call.mapping /\ call.mapping[PyStr(<<>>)].type = 3
    /\ PyStr(<< "1","2" >>) \in DOMAIN call.mapping /\ call.mapping[PyStr(<< "1","2" >>)].type = 3
    /\ ret[1].user_folders = << NameOfKey(PyStr(<<>>)) >>
    /\ ret[1].system_folders = << NameOfKey(PyStr(<< "1","2" >>)) >>

\* What one identifier alone contributes.
Alone(i) == categorize_labels(<< call.label_ids[i] >>, call.mapping)

\* The contributions to bucket k of the identifiers one by one, in input order.
OneByOne(k) ==
    LET In(i) == Alone(i)[k] # <<>>
        at == SelectSeq([i \in 1..Len(call.label_ids) |-> i], In) IN
    [j \in 1..Len(at) |-> Alone(at[j])[k][1]]

TotalLen(b) == Len(b.user_folders) + Len(b.system_folders) + Len(b.user_tags)
               + Len(b.system_tags) + Len(b.unknown)

\* C4: _categorize_labels is exhaustive and order-preserving: each identifier
\* contributes one name to one bucket, the bucket lengths sum to the input
\* length, each bucket holds its names in input order, and an empty input
\* yields five empty buckets.
C4_ExhaustiveOrdered ==
    (call.fn = "categorize" /\ ret # <<>>) =>
        /\ TotalLen(ret[1]) = Len(call.label_ids)
        /\ \A i \in 1..Len(call.label_ids) :
              /\ TotalLen(Alone(i)) = 1
              /\ Cardinality({ k \in BucketKeys : Alone(i)[k] # <<>> }) = 1
        /\ \A k \in BucketKeys : ret[1][k] = OneByOne(k)
        /\ (call.label_ids = <<>> => ret[1] = EmptyBuckets)

\* A call whose two identifiers land in the same bucket, in input order.
C4_Witness ==
    /\ call.fn = "categorize" /\ ret # <<>>
    /\ call.label_ids = << PyStr(<< "x" >>), PyStr(<< "1","a" >>) >>
    /\ PyStr(<< "1","a" >>) \in DOMAIN call.mapping
    /\ call.mapping[PyStr(<< "1","a" >>)].type = 7
    /\ Len(ret[1].unknown) = 2
    /\ ret[1].unknown[1] = UNKNOWN_LABEL_PREFIX \o << "x" >>

-----------------------------------------------------------------------------
(* Claims about _generate_unique_filename (SpecResolve) *)

\* The names present in the call's target folder.
Taken == { f.name : f \in { g \in call.files : g.dir = call.target_dir } }

\* <stem>_<k>.eml of the call's payload name <stem>.eml
Suffixed(k) ==
    SubSeq(call.eml_name, 1, Len(call.eml_name) - 4) \o << "_" >> \o Decimal(k) \o EML_SUFFIX

\* C6: _generate_unique_filename returns <name>.eml when the target folder does
\* not hold it, otherwise <stem>_<k>.eml for the smallest k >= 1 the folder
\* does not hold; the name returned is never one the folder holds.
C6_SmallestFreeSuffix ==
    (call.fn = "resolve" /\ ret # <<>>) =>
        /\ ret[1].name \notin Taken
        /\ IF call.eml_name \notin Taken
           THEN ret[1].name = call.eml_name
           ELSE \E k \in 1..(Cardinality(Taken) + 1) :
                   /\ ret[1].name = Suffixed(k)
                   /\ \A j \in 1..(k - 1) : Suffixed(j) \in Taken

\* t.eml resolved in a folder that holds t.eml and t_1.eml: t_2.eml.
C6_Witness ==
    /\ call.fn = "resolve" /\ ret # <<>>
    /\ call.eml_name = EmlName(<< "t" >>)
    /\ Taken = { EmlName(<< "t" >>), EmlName(<< "t","_","1" >>) }
    /\ ret[1].name = EmlName(<< "t","_","2" >>)

-----------------------------------------------------------------------------
(* Claims about organize_emails (Spec) *)

RunEnded == pc = "idle" /\ result # "none"

AllCopied == \A i \in 1..Len(placements) : placements[i].copied

\* C1: in a non-preview run in which every copy succeeds, each metadata record
\* whose payload file exists results in exactly one copy of that payload, in
\* one destination folder under the output root.
C1_OneCopyEach ==
    (RunEnded /\ ~dry_run /\ result \in {"True", "raised"} /\ AllCopied) =>
        \A i \in 1..Len(metadata_files) :
            metadata_files[i].eml_exists =>
                /\ Cardinality({ f \in files : f.src = metadata_files[i].base }) = 1
                /\ \A f \in files : f.src = metadata_files[i].base => f.dir \in dirs

DistinctPlacements ==
    \A i, j \in 1..Len(placements) :
        (i # j /\ placements[i].src # placements[j].src) =>
            << placements[i].dir, placements[i].name >> # << placements[j].dir, placements[j].name >>

C7_PreviewPredictsReal ==
    (last.preview # <<>> /\ last.real # <<>> /\ last.real[1].all_copied) =>
        /\ last.preview[1].chosen = last.real[1].chosen
        /\ last.preview[1].tally = last.real[1].tally

\* C8: a preview run leaves the filesystem unchanged: it creates neither the
\* output root nor a destination folder and copies no payload file.
C8_PreviewLeavesFilesystem == (nruns > 0 /\ dry_run) => FS = fs0

\* A finished preview that analysed two payloads, the output root not existing.
C8_Witness ==
    /\ dry_run /\ RunEnded /\ result = "True"
    /\ processed = 2
    /\ ~organized_exists

\* C9: once a non-preview run has created the output directory, a later
\* non-preview run returns failure and changes nothing in the output; a
\* preview run is not refused and goes on to analyse every message.
C9_SecondRunRefused ==
    /\ (nruns > 0 /\ ~dry_run /\ fs0.organized_exists) =>
          (RunEnded /\ result = "False" /\ FS = fs0)
    /\ (nruns > 0 /\ dry_run /\ fs0.organized_exists /\ metadata_files # <<>>) =>
          /\ result \in {"none", "True"}
          /\ result = "none" => pc \in {"loop", "summary"}
          /\ result = "True" => processed + errors = Len(metadata_files)

\* A second real run, refused over an output directory that holds copies.
C9_Witness ==
    /\ nruns = 2 /\ ~dry_run /\ RunEnded
    /\ result = "False"
    /\ fs0.organized_exists /\ fs0.files # {}

\* C10: when organize_emails returns False for a fatal condition, the run has
\* created no directory and copied no file.
C10_FatalBeforeOutput == (RunEnded /\ result = "False") => FS = fs0

-----------------------------------------------------------------------------
(* Claims about the per-message outcomes of organize_emails (Spec) *)

\* The characters the claims call unsafe in a folder name.
FilesystemUnsafe == { "<", ">", ":", "\"", "/", "\\", "|", "?", "*" }

\* The run is in or past its loop, not having returned False before it.
InRun == pc \in {"loop", "summary"} \/ (pc = "idle" /\ result \in {"True", "raised"})

\* The metadata files whose iteration has ended.
Handled == IF InRun THEN 1..(idx - 1) ELSE {}

PlacementOf(i) ==
    { k \in 1..Len(placements) : placements[k].src = metadata_files[i].base }

\* The per-item failures: the payload file is missing, the metadata cannot be
\* parsed, the copy failed.
PerItemFailure(i) ==
    \/ ~metadata_files[i].eml_exists
    \/ metadata_files[i].meta.kind = "invalid"
    \/ \E k \in PlacementOf(i) : ~placements[k].copied

\* C11: each per-item failure (payload missing, metadata that cannot be parsed,
\* copy failure) increments the error counter and the message is skipped: it
\* is not counted as processed and no copy of it is placed in any folder.
C11_FailuresCountedAndSkipped ==
    InRun =>
        /\ errors = Cardinality({ i \in Handled : PerItemFailure(i) })
        /\ processed = Cardinality({ i \in Handled : ~PerItemFailure(i) })
        /\ \A i \in Handled : PerItemFailure(i) =>
              ~\E f \in files \ fs0.files : f.src = metadata_files[i].base

\* C13: identifiers are compared by their string form on both sides: a message
\* label whose string form is that of a catalog entry's ID, the ID being an
\* integer in labels.json, is classified by that entry, not as an unknown label.
C13_StringFormMatch ==
    \A k \in 1..Len(placements) : \A i \in 1..Len(metadata_files) :
        LET m == metadata_files[i].meta IN
        (/\ placements[k].src = metadata_files[i].base
         /\ m.kind = "json" /\ m.payload_ids.ty = "absent"
         /\ m.root_ids.ty = "list" /\ Len(m.root_ids.items) = 1
         /\ \E e \in 1..Len(labels_file.payload) :
               /\ {"ID", "Name", "Type"} \subseteq DOMAIN labels_file.payload[e]
               /\ str(labels_file.payload[e].ID) = str(m.root_ids.items[1]))
        => placements[k].folder # UNKNOWN_LABEL_PREFIX \o str(m.root_ids.items[1])

\* C15: every destination folder name the orchestrator uses is non-empty and
\* holds none of the characters < > : " / \ | ? *, also when it comes from the
\* unrecognized bucket.
C15_FolderNamesSafe ==
    \A k \in 1..Len(placements) :
        /\ placements[k].folder # <<>>
        /\ \A j \in 1..Len(placements[k].folder) : placements[k].folder[j] \notin FilesystemUnsafe

\* One iteration increments exactly one of the two counters, by one.
OneCounterStep ==
    (pc = "loop" /\ idx' = idx + 1) =>
        \/ (processed' = processed + 1 /\ errors' = errors)
        \/ (processed' = processed /\ errors' = errors + 1)

\* C16: at every point of the loop processed + errors is the number of
\* metadata records handled so far, each record increments exactly one of the
\* two counters by one, and when the run completes processed + errors is the
\* number of metadata files discovered. A record is handled when its
\* iteration ends; an iteration that leaves the run with an exception counts
\* nothing and the run does not complete.
C16_CountersAccountForRecords ==
    /\ [](InRun => processed + errors = idx - 1)
    /\ []((RunEnded /\ result = "True") => processed + errors = Len(metadata_files))
    /\ [][OneCounterStep]_vars

\* A completed real run of two records, one copied and one whose copy failed.
C16_Witness ==
    /\ RunEnded /\ result = "True" /\ ~dry_run
    /\ Len(metadata_files) = 2
    /\ processed = 1 /\ errors = 1
    /\ \E k \in 1..Len(placements) : ~placements[k].copied

-----------------------------------------------------------------------------
(* Claims about load_labels_mapping (SpecLoad) *)

Complete(entry) == {"ID", "Name", "Type"} \subseteq DOMAIN entry

\* C12: load_labels_mapping drops incomplete entries one by one: the catalog
\* holds exactly the IDs of the entries that carry ID, Name and Type, each with
\* the name and the kind (3, 1 or any other integer) of the last such entry of
\* that ID, and the load fails exactly when no entry is complete.
C12_IncompleteEntriesDropped ==
    (call.fn = "load" /\ ret # <<>>) =>
        LET payload == call.lf.payload
            valid == { i \in 1..Len(payload) : Complete(payload[i]) } IN
        /\ ret[1].none <=> valid = {}
        /\ valid # {} =>
              /\ DOMAIN ret[1].mapping = { payload[i].ID : i \in valid }
              /\ \A i \in valid :
                    (\A j \in valid : j > i => payload[j].ID # payload[i].ID)
                    => ret[1].mapping[payload[i].ID] =
                          [name |-> sanitize_folder_name(payload[i].Name),
                           type |-> payload[i].Type]

\* The entries 1/Inbox-like/3, 2 without a kind, 3/Valid-like/1: the catalog has
\* the keys "1" and "3".
C12_Witness ==
    /\ call.fn = "load" /\ ret # <<>>
    /\ Len(call.lf.payload) = 3
    /\ call.lf.payload[1] = [ID |-> PyStr(<< "1" >>), Name |-> << "I", "n" >>, Type |-> 3]
    /\ call.lf.payload[2] = [ID |-> PyStr(<< "2" >>), Name |-> << "N", "c" >>]
    /\ call.lf.payload[3] = [ID |-> PyStr(<< "3" >>), Name |-> << "V", "a" >>, Type |-> 1]
    /\ ~ret[1].none
    /\ DOMAIN ret[1].mapping = { PyStr(<< "1" >>), PyStr(<< "3" >>) }

-----------------------------------------------------------------------------
(* Claims about sanitize_folder_name (SpecSanitize) *)

\* C14: the result of sanitize_folder_name is left as it is by a second
\* application, is never empty, holds none of < > : " / \ | ? *, neither starts
\* nor ends with a space or a dot, and is 'Unknown' when the name holds only
\* spaces and dots.
C14_SanitizeSafeIdempotent ==
    (call.fn = "sanitize" /\ ret # <<>>) =>
        LET r == ret[1] IN
        /\ r # <<>>
        /\ sanitize_folder_name(r) = r
        /\ \A i \in 1..Len(r) : r[i] \notin FilesystemUnsafe
        /\ r[1] \notin { " ", "." } /\ r[Len(r)] \notin { " ", "." }
        /\ (\A i \in 1..Len(call.name) : call.name[i] \in { " ", "." })
              => r = << "U", "n", "k", "n", "o", "w", "n" >>

\* '.? ' becomes '_': the unsafe character replaced, the dot and the space
\* stripped.
C14_Witness ==
    /\ call.fn = "sanitize" /\ ret # <<>>
    /\ call.name = << ".", "?", " " >>
    /\ ret[1] = << "_" >>

-----------------------------------------------------------------------------
(* Claims about the loop of _generate_unique_filename (SpecResolveLoop) *)

\* The names the target folder holds that are the payload's name or that name
\* with a numeric suffix.
SameBase ==
    { n \in Taken : n = call.eml_name \/ \E k \in 1..Cardinality(Taken) : n = Suffixed(k) }

\* C17: the loop of _generate_unique_filename ends, and the number of suffixes
\* it has tried is at no point more than the number of files of the same base
\* name the target folder holds.
C17_LoopEndsWithinCollisions ==
    /\ [](call.fn = "resolve_loop" /\ frame # <<>>
            => frame[1].counter - 1 <= Cardinality(SameBase))
    /\ (call.fn = "resolve_loop" ~> ret # <<>>)

\* t.eml resolved in a folder holding t.eml, t_1.eml and t_1_1.eml: two
\* suffixes tried, t_2.eml returned.
C17_Witness ==
    /\ call.fn = "resolve_loop" /\ ret # <<>>
    /\ call.eml_name = EmlName(<< "t" >>)
    /\ Taken = { EmlName(<< "t" >>), EmlName(<< "t","_","1" >>), EmlName(<< "t","_","1","_","1" >>) }
    /\ frame[1].counter - 1 = 2
    /\ ret[1].name = EmlName(<< "t","_","2" >>)

====
